---- MODULE Spec2Model ----
(***************************************************************************)
(* BlockingRunner::run of the node checker                                 *)
(* (ecosystem/node-checker/src/runner/blocking_runner.rs).                 *)
(*                                                                         *)
(* One run is a cooperative task: every fetch and every evaluator call is  *)
(* an await.  pc names the await the run is suspended at; an action is the *)
(* return of that await together with all the synchronous code up to the   *)
(* next await (or up to the return of run()).  Every collaborator call     *)
(* (evaluator, source, parser) is appended to the log `calls` with its     *)
(* argument, its result and the times at which it started and returned.    *)
(* Time is counted in whole seconds and passes only inside collect_metrics *)
(* and inside the Tps evaluator.                                           *)
(*                                                                         *)
(* The locals of run() are the variables from pc to outcome: they belong   *)
(* to the run that is executing.  A second run on the same BlockingRunner  *)
(* keeps its own locals in `suspended` while it waits at an await; the     *)
(* fields of self and the clock are the same for both.                     *)
(***************************************************************************)
EXTENDS Integers, Sequences, FiniteSets

\* ---------------------------------------------------------------- bounds
MaxEvals == 2         \* longest configured evaluator list
MaxFindings == 2      \* most findings one evaluator call returns
MaxDelay == 1         \* largest metrics_fetch_delay_secs
MaxTpsSecs == 2       \* longest runtime of the Tps evaluator, in seconds
MaxFetchSecs == 1     \* longest duration of one collect_metrics call
MaxSwitches == 2      \* most task switches between two concurrent runs

\* ------------------------------------------------------------- constants
PassingScore == 100

VARIABLES
    evaluators,                   \* self.evaluators: sequence of variants
    metrics_fetch_delay_secs,     \* self.args.metrics_fetch_delay_secs
    fetch_secs,                   \* duration of a collect_metrics call
    pc,                           \* the await the run is suspended at
    now,                          \* the clock (Instant::now()), in seconds
    calls,                        \* log of collaborator calls
    node_identity_evaluations,
    baseline_system_information,
    target_system_information,
    first_baseline_metrics,
    first_target_metrics,
    metrics_fetch_delay_time,
    evaluation_results,
    second_baseline_metrics,
    second_target_metrics,
    pos,                          \* position of the final loop in evaluators
    outcome,                      \* what run() returned
    target_node_address,          \* the target this run was called with
    suspended,                    \* the locals of the other run, if any
    switches                      \* task switches made so far

vars == <<evaluators, metrics_fetch_delay_secs, fetch_secs, pc, now, calls,
          node_identity_evaluations, baseline_system_information,
          target_system_information, first_baseline_metrics,
          first_target_metrics, metrics_fetch_delay_time, evaluation_results,
          second_baseline_metrics, second_target_metrics, pos, outcome,
          target_node_address, suspended, switches>>

config == <<evaluators, metrics_fetch_delay_secs, fetch_secs>>

\* What no step of run() touches besides the fields of self: its own
\* argument, the other run's locals and the scheduler's count.
elsewhere == <<target_node_address, suspended, switches>>

round1 == <<first_baseline_metrics, first_target_metrics>>
round2 == <<second_baseline_metrics, second_target_metrics>>
sysinfo == <<baseline_system_information, target_system_information>>

\* ---------------------------------------------------------------- values
\* A local of run() that is not bound yet holds a placeholder of its own type
\* (a response, a vector, an instant); pc tells which locals are bound.
Unset == [bound |-> FALSE]
UnsetVec == <<>>
UnsetInstant == 0
Pending == [tag |-> "Pending"]

EvaluatorType == {"Metrics", "SystemInformation", "Tps", "Latency"}

SeqsUpTo(S, n) == UNION {[1..k -> S] : k \in 0..n}

Max(a, b) == IF a >= b THEN a ELSE b

\* The findings an evaluator call returns: finding k of the evaluator at list
\* position `by` (0: the node identity evaluator), with the given scores.
Findings(by, scores) ==
    [k \in 1..Len(scores) |-> [by |-> by, k |-> k, score |-> scores[k]]]

\* What the node identity evaluator may return on success.
IdentityScores == SeqsUpTo({0, PassingScore, PassingScore + 1}, MaxFindings)

\* What any other evaluator may return on success: nothing, or MaxFindings
\* findings of which the first scores low or passing.
EvaluatorScores ==
    {<<>>} \cup {[k \in 1..MaxFindings |-> IF k = 1 THEN s ELSE PassingScore]
                    : s \in {0, PassingScore}}

\* DirectEvaluatorInput
direct_evaluator_input ==
    [baseline_node_information |-> "baseline_node_information",
     target_node_address |-> target_node_address]

\* Result<EvaluationSummary, RunnerError>
Ok(results) == [tag |-> "Ok", summary |-> results]
Err(kind) == [tag |-> "Err", error |-> kind]

\* One entry of the call log: operation, collaborator, position of the
\* evaluator in the configured list (0 otherwise), argument, whether the call
\* succeeded, what it returned, when it started and when it returned.
Call(op, who, idx, arg, ok, ret, at, end) ==
    [op |-> op, who |-> who, idx |-> idx, arg |-> arg, ok |-> ok, ret |-> ret,
     at |-> at, end |-> end]

NoArg == [none |-> TRUE]

\* Number of collect_metrics calls already made on a source.
Fetched(log, side) ==
    Cardinality({n \in 1..Len(log) :
                    log[n].op = "collect_metrics" /\ log[n].who = side})

\* The raw lines a source returns for its next collect_metrics call.
RawLines(log, side, wellformed) ==
    [source |-> side, scrape |-> Fetched(log, side) + 1, wellformed |-> wellformed]

\* The structured system information a source returns.
SystemInformation(side) == [source |-> side, kind |-> "system_information"]

\* parse_metrics: a PrometheusScrape of the lines, or a failure.
parse_metrics(lines) ==
    IF lines.wellformed
    THEN [ok |-> TRUE, value |-> [source |-> lines.source, scrape |-> lines.scrape]]
    ELSE [ok |-> FALSE, value |-> "error"]

\* Mutant of parse_response: the parser's failure mapped to the source's kind.
parse_response_AsSourceError(lines) ==
    LET parsed == parse_metrics(lines) IN
    IF parsed.ok THEN parsed ELSE [ok |-> FALSE, value |-> "MetricCollectorError"]

\* BlockingRunner::parse_response: the parser's failure as a RunnerError.
parse_response(lines) ==
    LET parsed == parse_metrics(lines) IN
    IF parsed.ok THEN parsed ELSE [ok |-> FALSE, value |-> "ParseMetricsError"]

\* The log entry of one parse_response call made at time `at`.
ParseCall(lines, at) ==
    Call("parse_metrics", "parser", 0, lines, parse_metrics(lines).ok,
         parse_metrics(lines).value, at, at)

\* The map_err of every source call, collect_system_information or collect_metrics.
SourceError == "MetricCollectorError"

\* Mutant of Collector: the second target fetch is issued on the baseline source.
Collector_SecondOnBaseline(stage) ==
    IF stage \in {"target_system_information", "first_target_metrics"}
    THEN "target"
    ELSE "baseline"

\* The source each fetch is issued on: self.baseline_metric_collector or the
\* target_metric_collector handed to run().
Collector(stage) ==
    IF stage \in {"baseline_system_information", "first_baseline_metrics",
                  "second_baseline_metrics"}
    THEN "baseline"
    ELSE "target"

\* Mutant of sleep_until: a fixed sleep of the configured delay.
sleep_until_FixedSleep(deadline) == now + metrics_fetch_delay_secs

\* tokio::time::sleep_until(deadline): the time at which the run resumes.
sleep_until(deadline) == Max(now, deadline)

\* Mutant of Deadline: the configured delay is left out.
Deadline_NoDelay(t) == t

\* Instant::now() + Duration::from_secs(self.args.metrics_fetch_delay_secs),
\* evaluated at time t.
Deadline(t) == t + metrics_fetch_delay_secs

\* Mutant of find_tps: the last Tps variant of the list is taken.
find_tps_Last(evs) ==
    IF \E n \in 1..Len(evs) : evs[n] = "Tps"
    THEN CHOOSE n \in 1..Len(evs) :
            evs[n] = "Tps" /\ \A m \in (n + 1)..Len(evs) : evs[m] /= "Tps"
    ELSE 0

\* Mutant of find_tps: the Tps variant is never found.
find_tps_None(evs) == 0

\* self.evaluators.iter().find_map(Tps): position of the first Tps variant, 0 if none.
find_tps(evs) ==
    IF \E n \in 1..Len(evs) : evs[n] = "Tps"
    THEN CHOOSE n \in 1..Len(evs) :
            evs[n] = "Tps" /\ \A m \in 1..(n - 1) : evs[m] /= "Tps"
    ELSE 0

\* No other run exists.
NoRun == [pc |-> "absent"]

\* ------------------------------------------------------------------ init
Init ==
    /\ evaluators \in SeqsUpTo(EvaluatorType, MaxEvals)
    /\ metrics_fetch_delay_secs \in 0..MaxDelay
    /\ fetch_secs \in 0..MaxFetchSecs
    /\ pc = "node_identity"
    /\ now = 0
    /\ calls = <<>>
    /\ node_identity_evaluations = UnsetVec
    /\ baseline_system_information = Unset
    /\ target_system_information = Unset
    /\ first_baseline_metrics = Unset
    /\ first_target_metrics = Unset
    /\ metrics_fetch_delay_time = UnsetInstant
    /\ evaluation_results = UnsetVec
    /\ second_baseline_metrics = Unset
    /\ second_target_metrics = Unset
    /\ pos = 0
    /\ outcome = Pending
    /\ target_node_address = "target_a"
    /\ suspended = NoRun
    /\ switches = 0

\* Mutant of Abort: a failure ends the run with the findings gathered so far.
Abort_ReturnsPartial(kind) ==
    /\ pc' = "done"
    /\ outcome' = Ok(evaluation_results)

\* Mutant of Abort: the failed step is attempted again.
Abort_Retries(kind) == UNCHANGED <<pc, outcome>>

\* The `?` operator: run() returns Err(kind), dropping every local.
Abort(kind) ==
    /\ pc' = "done"
    /\ outcome' = Err(kind)

\* --------------------------------------------------------------- actions

\* Mutant of HasNonPassing: only scores under the passing score count.
HasNonPassing_BelowOnly(evaluations) ==
    \E k \in 1..Len(evaluations) : evaluations[k].score < PassingScore

\* Mutant of HasNonPassing: only the first identity finding is inspected.
HasNonPassing_FirstOnly(evaluations) ==
    evaluations /= <<>> /\ evaluations[1].score /= PassingScore

\* Lines 103-108: some node identity evaluation has a non-passing score.
HasNonPassing(evaluations) ==
    \E k \in 1..Len(evaluations) : evaluations[k].score /= PassingScore

\* Mutant of NodeIdentity: a failure of the node identity evaluator is taken
\* as no findings and the run goes on.
NodeIdentity_Lenient ==
    /\ pc = "node_identity"
    /\ \/ /\ calls' = Append(calls, Call("evaluate", "NodeIdentity", 0,
                                         direct_evaluator_input, FALSE, "error",
                                         now, now))
          /\ node_identity_evaluations' = <<>>
          /\ pc' = "baseline_system_information"
          /\ UNCHANGED outcome
       \/ \E scores \in IdentityScores :
            LET found == Findings(0, scores) IN
            /\ calls' = Append(calls, Call("evaluate", "NodeIdentity", 0,
                                           direct_evaluator_input, TRUE, found,
                                           now, now))
            /\ node_identity_evaluations' = found
            /\ IF HasNonPassing(found)
               THEN /\ pc' = "done"
                    /\ outcome' = Ok(found)
               ELSE /\ pc' = "baseline_system_information"
                    /\ UNCHANGED outcome
    /\ UNCHANGED <<config, elsewhere, now, sysinfo, round1, round2,
                   metrics_fetch_delay_time, evaluation_results, pos>>

NodeIdentity ==
    /\ pc = "node_identity"
    /\ \/ /\ calls' = Append(calls, Call("evaluate", "NodeIdentity", 0,
                                         direct_evaluator_input, FALSE, "error",
                                         now, now))
          /\ Abort("NodeIdentityEvaluatorError")
          /\ UNCHANGED node_identity_evaluations
       \/ \E scores \in IdentityScores :
            LET found == Findings(0, scores) IN
            /\ calls' = Append(calls, Call("evaluate", "NodeIdentity", 0,
                                           direct_evaluator_input, TRUE, found,
                                           now, now))
            /\ node_identity_evaluations' = found
            /\ IF HasNonPassing(found)
               THEN /\ pc' = "done"
                    /\ outcome' = Ok(found)
               ELSE /\ pc' = "baseline_system_information"
                    /\ UNCHANGED outcome
    /\ UNCHANGED <<config, elsewhere, now, sysinfo, round1, round2,
                   metrics_fetch_delay_time, evaluation_results, pos>>

\* Lines 110-116: collect_system_information on the baseline source returns.
BaselineSystemInformation ==
    /\ pc = "baseline_system_information"
    /\ \/ /\ calls' = Append(calls, Call("collect_system_information", Collector(pc),
                                         0, NoArg, FALSE, "error", now, now))
          /\ Abort(SourceError)
          /\ UNCHANGED baseline_system_information
       \/ /\ calls' = Append(calls, Call("collect_system_information", Collector(pc),
                                         0, NoArg, TRUE,
                                         SystemInformation(Collector(pc)), now, now))
          /\ baseline_system_information' = SystemInformation(Collector(pc))
          /\ pc' = "target_system_information"
          /\ UNCHANGED outcome
    /\ UNCHANGED <<config, elsewhere, now, node_identity_evaluations,
                   target_system_information, round1, round2,
                   metrics_fetch_delay_time, evaluation_results, pos>>

\* Lines 118-123: collect_system_information on the target source returns.
TargetSystemInformation ==
    /\ pc = "target_system_information"
    /\ \/ /\ calls' = Append(calls, Call("collect_system_information", Collector(pc),
                                         0, NoArg, FALSE, "error", now, now))
          /\ Abort(SourceError)
          /\ UNCHANGED target_system_information
       \/ /\ calls' = Append(calls, Call("collect_system_information", Collector(pc),
                                         0, NoArg, TRUE,
                                         SystemInformation(Collector(pc)), now, now))
          /\ target_system_information' = SystemInformation(Collector(pc))
          /\ pc' = "first_baseline_metrics"
          /\ UNCHANGED outcome
    /\ UNCHANGED <<config, elsewhere, now, node_identity_evaluations,
                   baseline_system_information, round1, round2,
                   metrics_fetch_delay_time, evaluation_results, pos>>

\* Mutant of FirstBaselineMetrics: the baseline text is parsed as soon as it
\* is fetched, before the target fetch.
FirstBaselineMetrics_ParsesAtOnce ==
    /\ pc = "first_baseline_metrics"
    /\ now' = now + fetch_secs
    /\ \/ /\ calls' = Append(calls, Call("collect_metrics", Collector(pc), 0, NoArg,
                                         FALSE, "error", now, now'))
          /\ Abort(SourceError)
          /\ UNCHANGED first_baseline_metrics
       \/ \E wellformed \in BOOLEAN :
            LET lines == RawLines(calls, Collector(pc), wellformed)
                fetched == Append(calls, Call("collect_metrics", Collector(pc), 0,
                                              NoArg, TRUE, lines, now, now'))
            IN  /\ calls' = Append(fetched, ParseCall(lines, now'))
                /\ first_baseline_metrics' = lines
                /\ IF parse_response(lines).ok
                   THEN pc' = "first_target_metrics" /\ UNCHANGED outcome
                   ELSE Abort(parse_response(lines).value)
    /\ UNCHANGED <<config, elsewhere, node_identity_evaluations, sysinfo,
                   first_target_metrics, round2, metrics_fetch_delay_time,
                   evaluation_results, pos>>

\* Lines 125-130: the first collect_metrics on the baseline source returns.
FirstBaselineMetrics ==
    /\ pc = "first_baseline_metrics"
    /\ now' = now + fetch_secs
    /\ \/ /\ calls' = Append(calls, Call("collect_metrics", Collector(pc), 0, NoArg,
                                         FALSE, "error", now, now'))
          /\ Abort(SourceError)
          /\ UNCHANGED first_baseline_metrics
       \/ \E wellformed \in BOOLEAN :
            LET lines == RawLines(calls, Collector(pc), wellformed) IN
            /\ calls' = Append(calls, Call("collect_metrics", Collector(pc), 0,
                                           NoArg, TRUE, lines, now, now'))
            /\ first_baseline_metrics' = lines
            /\ pc' = "first_target_metrics"
            /\ UNCHANGED outcome
    /\ UNCHANGED <<config, elsewhere, node_identity_evaluations, sysinfo,
                   first_target_metrics, round2, metrics_fetch_delay_time,
                   evaluation_results, pos>>

\* Lines 132-157: the first collect_metrics on the target source returns; both
\* responses are parsed, the deadline is fixed and the Tps evaluator is looked up.
FirstTargetMetrics ==
    /\ pc = "first_target_metrics"
    /\ now' = now + fetch_secs
    /\ \/ /\ calls' = Append(calls, Call("collect_metrics", Collector(pc), 0, NoArg,
                                         FALSE, "error", now, now'))
          /\ Abort(SourceError)
          /\ UNCHANGED <<round1, metrics_fetch_delay_time, evaluation_results>>
       \/ \E wellformed \in BOOLEAN :
            LET lines == RawLines(calls, Collector(pc), wellformed)
                fetched == Append(calls, Call("collect_metrics", Collector(pc), 0,
                                              NoArg, TRUE, lines, now, now'))
                baseline == parse_response(first_baseline_metrics)
                target == parse_response(lines)
            IN  IF ~baseline.ok
                THEN /\ calls' = Append(fetched,
                                        ParseCall(first_baseline_metrics, now'))
                     /\ first_target_metrics' = lines
                     /\ Abort(baseline.value)
                     /\ UNCHANGED <<first_baseline_metrics,
                                    metrics_fetch_delay_time, evaluation_results>>
                ELSE IF ~target.ok
                THEN /\ calls' = fetched \o <<ParseCall(first_baseline_metrics, now'),
                                              ParseCall(lines, now')>>
                     /\ first_baseline_metrics' = baseline.value
                     /\ first_target_metrics' = lines
                     /\ Abort(target.value)
                     /\ UNCHANGED <<metrics_fetch_delay_time, evaluation_results>>
                ELSE /\ calls' = fetched \o <<ParseCall(first_baseline_metrics, now'),
                                              ParseCall(lines, now')>>
                     /\ first_baseline_metrics' = baseline.value
                     /\ first_target_metrics' = target.value
                     /\ evaluation_results' = node_identity_evaluations
                     /\ metrics_fetch_delay_time' = Deadline(now')
                     /\ pc' = IF find_tps(evaluators) /= 0 THEN "tps" ELSE "sleep"
                     /\ UNCHANGED outcome
    /\ UNCHANGED <<config, elsewhere, node_identity_evaluations, sysinfo, round2, pos>>

\* Lines 159-168: the Tps evaluator returns, after running for some seconds.
TpsEvaluator ==
    /\ pc = "tps"
    /\ \E secs \in 0..MaxTpsSecs :
        /\ now' = now + secs
        /\ \/ /\ calls' = Append(calls, Call("evaluate", "Tps", find_tps(evaluators),
                                             direct_evaluator_input, FALSE,
                                             "error", now, now'))
              /\ Abort("TpsEvaluatorError")
              /\ UNCHANGED evaluation_results
           \/ \E scores \in EvaluatorScores :
                LET found == Findings(find_tps(evaluators), scores) IN
                /\ calls' = Append(calls, Call("evaluate", "Tps",
                                               find_tps(evaluators),
                                               direct_evaluator_input, TRUE,
                                               found, now, now'))
                /\ evaluation_results' = evaluation_results \o found
                /\ pc' = "sleep"
                /\ UNCHANGED outcome
    /\ UNCHANGED <<config, elsewhere, node_identity_evaluations, sysinfo, round1, round2,
                   metrics_fetch_delay_time, pos>>

\* Line 170: sleep_until(metrics_fetch_delay_time) returns.
Sleep ==
    /\ pc = "sleep"
    /\ now' = sleep_until(metrics_fetch_delay_time)
    /\ pc' = "second_baseline_metrics"
    /\ UNCHANGED <<config, elsewhere, calls, node_identity_evaluations, sysinfo, round1,
                   round2, metrics_fetch_delay_time, evaluation_results, pos,
                   outcome>>

\* Lines 172-174: the second collect_metrics on the baseline source returns.
SecondBaselineMetrics ==
    /\ pc = "second_baseline_metrics"
    /\ now' = now + fetch_secs
    /\ \/ /\ calls' = Append(calls, Call("collect_metrics", Collector(pc), 0, NoArg,
                                         FALSE, "error", now, now'))
          /\ Abort(SourceError)
          /\ UNCHANGED second_baseline_metrics
       \/ \E wellformed \in BOOLEAN :
            LET lines == RawLines(calls, Collector(pc), wellformed) IN
            /\ calls' = Append(calls, Call("collect_metrics", Collector(pc), 0,
                                           NoArg, TRUE, lines, now, now'))
            /\ second_baseline_metrics' = lines
            /\ pc' = "second_target_metrics"
            /\ UNCHANGED outcome
    /\ UNCHANGED <<config, elsewhere, node_identity_evaluations, sysinfo, round1,
                   second_target_metrics, metrics_fetch_delay_time,
                   evaluation_results, pos>>

\* Lines 214-216: the end of the final loop, run() returns the summary.
Finish(results) ==
    /\ pc' = "done"
    /\ outcome' = Ok(results)

\* Lines 176-194: the second collect_metrics on the target source returns; both
\* responses are parsed, the evaluator inputs are built and the final loop starts.
SecondTargetMetrics ==
    /\ pc = "second_target_metrics"
    /\ now' = now + fetch_secs
    /\ \/ /\ calls' = Append(calls, Call("collect_metrics", Collector(pc), 0, NoArg,
                                         FALSE, "error", now, now'))
          /\ Abort(SourceError)
          /\ UNCHANGED <<round2, pos>>
       \/ \E wellformed \in BOOLEAN :
            LET lines == RawLines(calls, Collector(pc), wellformed)
                fetched == Append(calls, Call("collect_metrics", Collector(pc), 0,
                                              NoArg, TRUE, lines, now, now'))
                baseline == parse_response(second_baseline_metrics)
                target == parse_response(lines)
            IN  IF ~baseline.ok
                THEN /\ calls' = Append(fetched,
                                        ParseCall(second_baseline_metrics, now'))
                     /\ second_target_metrics' = lines
                     /\ Abort(baseline.value)
                     /\ UNCHANGED <<second_baseline_metrics, pos>>
                ELSE IF ~target.ok
                THEN /\ calls' = fetched \o <<ParseCall(second_baseline_metrics, now'),
                                              ParseCall(lines, now')>>
                     /\ second_baseline_metrics' = baseline.value
                     /\ second_target_metrics' = lines
                     /\ Abort(target.value)
                     /\ UNCHANGED pos
                ELSE /\ calls' = fetched \o <<ParseCall(second_baseline_metrics, now'),
                                              ParseCall(lines, now')>>
                     /\ second_baseline_metrics' = baseline.value
                     /\ second_target_metrics' = target.value
                     /\ IF evaluators = <<>>
                        THEN Finish(evaluation_results) /\ UNCHANGED pos
                        ELSE pc' = "evaluators" /\ pos' = 1 /\ UNCHANGED outcome
    /\ UNCHANGED <<config, elsewhere, node_identity_evaluations, sysinfo, round1,
                   metrics_fetch_delay_time, evaluation_results>>

\* Mutant of metrics_evaluator_input: the first-round target snapshot and the
\* second-round baseline snapshot change places.
metrics_evaluator_input_Swapped ==
    [previous_baseline_metrics |-> first_baseline_metrics,
     previous_target_metrics |-> second_baseline_metrics,
     latest_baseline_metrics |-> first_target_metrics,
     latest_target_metrics |-> second_target_metrics]

\* Lines 182-187: MetricsEvaluatorInput
metrics_evaluator_input ==
    [previous_baseline_metrics |-> first_baseline_metrics,
     previous_target_metrics |-> first_target_metrics,
     latest_baseline_metrics |-> second_baseline_metrics,
     latest_target_metrics |-> second_target_metrics]

\* Mutant of system_information_evaluator_input: the two sides change places.
system_information_evaluator_input_Swapped ==
    [baseline_system_information |-> target_system_information,
     target_system_information |-> baseline_system_information]

\* Lines 189-192: SystemInformationEvaluatorInput
system_information_evaluator_input ==
    [baseline_system_information |-> baseline_system_information,
     target_system_information |-> target_system_information]

\* Mutant of Continue: the findings of one iteration are put in front.
Continue_Prepends(local_evaluation_results) ==
    /\ evaluation_results' = local_evaluation_results \o evaluation_results
    /\ IF pos = Len(evaluators)
       THEN Finish(evaluation_results') /\ UNCHANGED pos
       ELSE pos' = pos + 1 /\ UNCHANGED <<pc, outcome>>

\* Lines 211-216: the findings of one iteration are appended; the loop moves
\* on, or ends and run() returns the summary.
Continue(local_evaluation_results) ==
    /\ evaluation_results' = evaluation_results \o local_evaluation_results
    /\ IF pos = Len(evaluators)
       THEN Finish(evaluation_results') /\ UNCHANGED pos
       ELSE pos' = pos + 1 /\ UNCHANGED <<pc, outcome>>

\* Mutant of Evaluate: a failed evaluator counts as one without findings and
\* the loop goes on.
Evaluate_IgnoresFailure(variant, input, error) ==
    /\ pc = "evaluators"
    /\ evaluators[pos] = variant
    /\ \/ /\ calls' = Append(calls, Call("evaluate", variant, pos, input, FALSE,
                                         "error", now, now))
          /\ Continue(<<>>)
       \/ \E scores \in EvaluatorScores :
            /\ calls' = Append(calls, Call("evaluate", variant, pos, input, TRUE,
                                           Findings(pos, scores), now, now))
            /\ Continue(Findings(pos, scores))
    /\ UNCHANGED <<config, elsewhere, now, node_identity_evaluations, sysinfo, round1,
                   round2, metrics_fetch_delay_time>>

\* One iteration of the final loop on an evaluator that is awaited: the
\* evaluator of the given variant returns.
Evaluate(variant, input, error) ==
    /\ pc = "evaluators"
    /\ evaluators[pos] = variant
    /\ \/ /\ calls' = Append(calls, Call("evaluate", variant, pos, input, FALSE,
                                         "error", now, now))
          /\ Abort(error)
          /\ UNCHANGED <<evaluation_results, pos>>
       \/ \E scores \in EvaluatorScores :
            /\ calls' = Append(calls, Call("evaluate", variant, pos, input, TRUE,
                                           Findings(pos, scores), now, now))
            /\ Continue(Findings(pos, scores))
    /\ UNCHANGED <<config, elsewhere, now, node_identity_evaluations, sysinfo, round1,
                   round2, metrics_fetch_delay_time>>

\* Lines 196-199
EvaluateMetrics ==
    Evaluate("Metrics", metrics_evaluator_input, "MetricEvaluatorError")

\* Lines 200-203
EvaluateSystemInformation ==
    Evaluate("SystemInformation", system_information_evaluator_input,
             "SystemInformationEvaluatorError")

\* Mutant of SkipTps: the loop does not move past a Tps variant.
SkipTps_Stalls ==
    /\ pc = "evaluators"
    /\ evaluators[pos] = "Tps"
    /\ UNCHANGED vars

\* Mutant of SkipTps: the final loop runs the Tps evaluator like the others.
SkipTps_Evaluates ==
    Evaluate("Tps", direct_evaluator_input, "TpsEvaluatorError")

\* Lines 204-205: the Tps variant contributes vec![] and is not awaited.
SkipTps ==
    /\ pc = "evaluators"
    /\ evaluators[pos] = "Tps"
    /\ Continue(<<>>)
    /\ UNCHANGED <<config, elsewhere, now, calls, node_identity_evaluations, sysinfo,
                   round1, round2, metrics_fetch_delay_time>>

\* Mutant of EvaluateLatency: the failure mapped to the Metrics evaluator's kind.
EvaluateLatency_WrongKind ==
    Evaluate("Latency", direct_evaluator_input, "MetricEvaluatorError")

\* Lines 206-209
EvaluateLatency ==
    Evaluate("Latency", direct_evaluator_input, "LatencyEvaluatorError")

Next ==
    \/ NodeIdentity
    \/ BaselineSystemInformation
    \/ TargetSystemInformation
    \/ FirstBaselineMetrics
    \/ FirstTargetMetrics
    \/ TpsEvaluator
    \/ Sleep
    \/ SecondBaselineMetrics
    \/ SecondTargetMetrics
    \/ EvaluateMetrics
    \/ EvaluateSystemInformation
    \/ SkipTps
    \/ EvaluateLatency

Spec == Init /\ [][Next]_vars

\* The run is polled until it completes: every await that can return does
\* return (collaborators answer, the clock reaches the deadline).
FairSpec == Spec /\ WF_vars(Next)

\* ------------------------------------------------- two runs on one runner
\* The locals of the executing run, as they are kept while it is suspended.
Frame ==
    [target_node_address |-> target_node_address,
     pc |-> pc,
     calls |-> calls,
     node_identity_evaluations |-> node_identity_evaluations,
     baseline_system_information |-> baseline_system_information,
     target_system_information |-> target_system_information,
     first_baseline_metrics |-> first_baseline_metrics,
     first_target_metrics |-> first_target_metrics,
     metrics_fetch_delay_time |-> metrics_fetch_delay_time,
     evaluation_results |-> evaluation_results,
     second_baseline_metrics |-> second_baseline_metrics,
     second_target_metrics |-> second_target_metrics,
     pos |-> pos,
     outcome |-> outcome]

\* The locals of a run that was called with a target and has not been polled.
Called(target) ==
    [target_node_address |-> target,
     pc |-> "node_identity",
     calls |-> <<>>,
     node_identity_evaluations |-> UnsetVec,
     baseline_system_information |-> Unset,
     target_system_information |-> Unset,
     first_baseline_metrics |-> Unset,
     first_target_metrics |-> Unset,
     metrics_fetch_delay_time |-> UnsetInstant,
     evaluation_results |-> UnsetVec,
     second_baseline_metrics |-> Unset,
     second_target_metrics |-> Unset,
     pos |-> 0,
     outcome |-> Pending]

\* Mutant of Switch: evaluation_results is kept in the runner, so the run
\* that resumes goes on with the vector the other run left.
Switch_SharesResults ==
    /\ pc /= "done"
    /\ suspended.pc \notin {"absent", "done"}
    /\ switches < MaxSwitches
    /\ switches' = switches + 1
    /\ suspended' = Frame
    /\ target_node_address' = suspended.target_node_address
    /\ pc' = suspended.pc
    /\ calls' = suspended.calls
    /\ node_identity_evaluations' = suspended.node_identity_evaluations
    /\ baseline_system_information' = suspended.baseline_system_information
    /\ target_system_information' = suspended.target_system_information
    /\ first_baseline_metrics' = suspended.first_baseline_metrics
    /\ first_target_metrics' = suspended.first_target_metrics
    /\ metrics_fetch_delay_time' = suspended.metrics_fetch_delay_time
    /\ second_baseline_metrics' = suspended.second_baseline_metrics
    /\ second_target_metrics' = suspended.second_target_metrics
    /\ pos' = suspended.pos
    /\ outcome' = suspended.outcome
    /\ UNCHANGED <<config, now, evaluation_results>>

\* The executor leaves the run at its await and polls the other run, which
\* is waiting at an await of its own: each run finds its own locals as it
\* left them; self and the clock are common to both.
Switch ==
    /\ pc /= "done"
    /\ suspended.pc \notin {"absent", "done"}
    /\ switches < MaxSwitches
    /\ switches' = switches + 1
    /\ suspended' = Frame
    /\ target_node_address' = suspended.target_node_address
    /\ pc' = suspended.pc
    /\ calls' = suspended.calls
    /\ node_identity_evaluations' = suspended.node_identity_evaluations
    /\ baseline_system_information' = suspended.baseline_system_information
    /\ target_system_information' = suspended.target_system_information
    /\ first_baseline_metrics' = suspended.first_baseline_metrics
    /\ first_target_metrics' = suspended.first_target_metrics
    /\ metrics_fetch_delay_time' = suspended.metrics_fetch_delay_time
    /\ evaluation_results' = suspended.evaluation_results
    /\ second_baseline_metrics' = suspended.second_baseline_metrics
    /\ second_target_metrics' = suspended.second_target_metrics
    /\ pos' = suspended.pos
    /\ outcome' = suspended.outcome
    /\ UNCHANGED <<config, now>>

\* The collaborators of the run against target_b answer in one way: every
\* call succeeds, every text parses, every evaluator returns MaxFindings
\* passing findings and the Tps evaluator takes MaxTpsSecs.
Typical ==
    \A n \in 1..Len(calls) :
        /\ calls[n].ok
        /\ calls[n].op = "collect_metrics" => calls[n].ret.wellformed
        /\ calls[n].op = "evaluate" =>
            /\ Len(calls[n].ret) = MaxFindings
            /\ \A k \in 1..Len(calls[n].ret) : calls[n].ret[k].score = PassingScore
            /\ calls[n].who = "Tps" => calls[n].end = calls[n].at + MaxTpsSecs

\* Two calls of run() on one runner, for target_a and for target_b, with
\* the longest delay and the slowest sources, so that the clock moves at
\* every fetch and every wait of either run.
InitConcurrent ==
    /\ evaluators \in SeqsUpTo(EvaluatorType, MaxEvals - 1)
    /\ metrics_fetch_delay_secs = MaxDelay
    /\ fetch_secs = MaxFetchSecs
    /\ pc = "node_identity"
    /\ now = 0
    /\ calls = <<>>
    /\ node_identity_evaluations = UnsetVec
    /\ baseline_system_information = Unset
    /\ target_system_information = Unset
    /\ first_baseline_metrics = Unset
    /\ first_target_metrics = Unset
    /\ metrics_fetch_delay_time = UnsetInstant
    /\ evaluation_results = UnsetVec
    /\ second_baseline_metrics = Unset
    /\ second_target_metrics = Unset
    /\ pos = 0
    /\ outcome = Pending
    /\ target_node_address = "target_a"
    /\ suspended = Called("target_b")
    /\ switches = 0

\* A step of the executing run, with typical answers for target_b.
Polled(step) == step /\ (target_node_address = "target_b" => Typical')

\* The executing run takes its next step, or the executor switches runs.
NextConcurrent ==
    \/ Polled(NodeIdentity)
    \/ Polled(BaselineSystemInformation)
    \/ Polled(TargetSystemInformation)
    \/ Polled(FirstBaselineMetrics)
    \/ Polled(FirstTargetMetrics)
    \/ Polled(TpsEvaluator)
    \/ Polled(Sleep)
    \/ Polled(SecondBaselineMetrics)
    \/ Polled(SecondTargetMetrics)
    \/ Polled(EvaluateMetrics)
    \/ Polled(EvaluateSystemInformation)
    \/ Polled(SkipTps)
    \/ Polled(EvaluateLatency)
    \/ Switch

SpecConcurrent == InitConcurrent /\ [][NextConcurrent]_vars

\* ================================================================ claims

Done == pc = "done"
Succeeded == outcome.tag = "Ok"
Failed == outcome.tag = "Err"

\* Number of calls of an operation made on a collaborator.
Count(op, who) ==
    Cardinality({n \in 1..Len(calls) : calls[n].op = op /\ calls[n].who = who})

\* The node identity evaluator was the first call and returned successfully.
IdentityReturned ==
    /\ calls /= <<>>
    /\ calls[1].op = "evaluate" /\ calls[1].who = "NodeIdentity"
    /\ calls[1].ok
IdentityFindings == calls[1].ret
SomeBelowMax ==
    \E k \in 1..Len(IdentityFindings) : IdentityFindings[k].score < PassingScore
SomeNotMax ==
    \E k \in 1..Len(IdentityFindings) : IdentityFindings[k].score /= PassingScore
AllMax ==
    \A k \in 1..Len(IdentityFindings) : IdentityFindings[k].score = PassingScore

AnyFailed == \E n \in 1..Len(calls) : ~calls[n].ok
FirstFailure ==
    CHOOSE n \in 1..Len(calls) : ~calls[n].ok /\ \A m \in 1..(n - 1) : calls[m].ok

\* C1: when the node identity evaluator succeeds and some identity finding
\* scores below the maximum, run() has returned Ok with exactly the identity
\* findings, in order, and the identity evaluation is the only call made.
C1_IdentityShortCircuit ==
    (IdentityReturned /\ SomeBelowMax) =>
        /\ Done
        /\ Succeeded
        /\ outcome.summary = IdentityFindings
        /\ Len(calls) = 1

\* C1 witness: a short-circuited run whose second identity finding is the low one.
C1_Witness ==
    /\ Done /\ IdentityReturned /\ SomeBelowMax
    /\ Len(IdentityFindings) = 2
    /\ IdentityFindings[1].score = PassingScore
    /\ evaluators /= <<>>

\* The n-th call of the log is the given fetch of metrics on a source: its
\* first (scrape = 1) or its second (scrape = 2).
IsMetricsFetch(n, side, scrape) ==
    /\ calls[n].op = "collect_metrics"
    /\ calls[n].who = side
    /\ Cardinality({m \in 1..(n - 1) :
            calls[m].op = "collect_metrics" /\ calls[m].who = side}) = scrape - 1

\* A stage before the second collect_metrics on the target has failed.
FailedBeforeSecondTargetFetch ==
    \E n \in 1..Len(calls) :
        /\ ~calls[n].ok
        /\ \/ calls[n].op = "collect_system_information"
           \/ calls[n].op = "collect_metrics" /\ calls[n].who = "baseline"
           \/ IsMetricsFetch(n, "target", 1)
           \/ calls[n].op = "parse_metrics" /\ calls[n].arg.scrape = 1
           \/ calls[n].op = "evaluate" /\ calls[n].who = "Tps"

\* C2 as stated: every finished run whose identity findings all score the
\* maximum has called the target source at least three times (one
\* collect_system_information, two collect_metrics).
C2_Original ==
    (Done /\ IdentityReturned /\ AllMax) =>
        /\ Count("collect_system_information", "target") >= 1
        /\ Count("collect_metrics", "target") >= 2

\* C2 amended: every finished run whose identity findings all score the
\* maximum and in which no stage before the second target metrics fetch
\* failed has called the target source exactly three times (one
\* collect_system_information, two collect_metrics).
C2_ProceedsUnlessEarlierFailure ==
    (Done /\ IdentityReturned /\ AllMax /\ ~FailedBeforeSecondTargetFetch) =>
        /\ Count("collect_system_information", "target") = 1
        /\ Count("collect_metrics", "target") = 2

\* C2 witness: the identity gate passed with findings and the run got as far
\* as the second target fetch, which failed.
C2_Witness ==
    /\ Done /\ IdentityReturned /\ AllMax /\ ~FailedBeforeSecondTargetFetch
    /\ IdentityFindings /= <<>>
    /\ Failed
    /\ calls[Len(calls)].op = "collect_metrics"

\* The positions of the configured list whose evaluator runs in the final loop.
LoopPositions == {n \in 1..Len(evaluators) : evaluators[n] /= "Tps"}

\* Number of evaluate calls made on the evaluator at a list position.
Evaluations(n) ==
    Cardinality({m \in 1..Len(calls) :
                    calls[m].op = "evaluate" /\ calls[m].idx = n})

\* Only the identity evaluation ran, and it found a non-passing score.
ShortCircuited == Len(calls) = 1 /\ IdentityReturned /\ SomeNotMax

\* Every stage of the pipeline ran.
CompleteRun ==
    /\ IdentityReturned
    /\ \A side \in {"baseline", "target"} :
        /\ Count("collect_system_information", side) = 1
        /\ Count("collect_metrics", side) = 2
    /\ Count("parse_metrics", "parser") = 4
    /\ Count("evaluate", "Tps") = (IF find_tps(evaluators) /= 0 THEN 1 ELSE 0)
    /\ \A n \in LoopPositions : Evaluations(n) = 1

\* C3: once any call has failed, run() has returned an error that carries no
\* summary and no finding, the failed call is the last call made and every
\* call before it succeeded; a run that returned a summary either
\* short-circuited at the identity gate or ran every stage.
C3_FailFast ==
    /\ AnyFailed =>
        /\ Done
        /\ Failed
        /\ DOMAIN outcome = {"tag", "error"}
        /\ FirstFailure = Len(calls)
    /\ Succeeded => (ShortCircuited \/ CompleteRun)

\* C3 witness: the target source fails on its second metrics fetch only, after
\* identity and Tps findings had been gathered.
C3_Witness ==
    /\ Done /\ Failed
    /\ outcome.error = "MetricCollectorError"
    /\ calls[Len(calls)].op = "collect_metrics"
    /\ calls[Len(calls)].who = "target"
    /\ Count("collect_metrics", "target") = 2
    /\ Count("evaluate", "Tps") = 1
    /\ Len(evaluation_results) > Len(IdentityFindings)
    /\ IdentityFindings /= <<>>

\* The error kind of the stage a call belongs to.
StageErrorKind(call) ==
    CASE call.op \in {"collect_system_information", "collect_metrics"} ->
            "MetricCollectorError"
      [] call.op = "parse_metrics" -> "ParseMetricsError"
      [] call.op = "evaluate" /\ call.who = "NodeIdentity" ->
            "NodeIdentityEvaluatorError"
      [] call.op = "evaluate" /\ call.who = "Tps" -> "TpsEvaluatorError"
      [] call.op = "evaluate" /\ call.who = "Metrics" -> "MetricEvaluatorError"
      [] call.op = "evaluate" /\ call.who = "SystemInformation" ->
            "SystemInformationEvaluatorError"
      [] call.op = "evaluate" /\ call.who = "Latency" -> "LatencyEvaluatorError"

\* An evaluator other than the identity gate returned a low-scoring finding.
LowScoreReturned ==
    \E n \in 2..Len(calls) :
        /\ calls[n].op = "evaluate" /\ calls[n].ok
        /\ \E k \in 1..Len(calls[n].ret) : calls[n].ret[k].score < PassingScore

\* C4: the error run() returns is the kind of the stage of the first failed
\* call, and a finished run in which no call failed (whatever the scores its
\* evaluators returned) returned no error.
C4_StageErrorKinds ==
    /\ Failed => (AnyFailed /\ outcome.error = StageErrorKind(calls[FirstFailure]))
    /\ AnyFailed => Failed
    /\ (Done /\ ~AnyFailed) => Succeeded

\* C4 witness: the Latency evaluator fails after another evaluator had
\* succeeded with a low-scoring finding.
C4_Witness ==
    /\ Done /\ Failed
    /\ outcome.error = "LatencyEvaluatorError"
    /\ LowScoreReturned

\* C5: when a parse of the raw metrics of either round and either side fails,
\* run() has returned the parse-failure error, which is not the source-failure
\* kind, and no summary.
C5_ParseFailureAborts ==
    \A n \in 1..Len(calls) :
        (calls[n].op = "parse_metrics" /\ ~calls[n].ok) =>
            /\ Done
            /\ Failed
            /\ outcome.error = "ParseMetricsError"
            /\ outcome.error /= SourceError
            /\ DOMAIN outcome = {"tag", "error"}

\* A run that ended on the failed parse of one side's text of one round.
ParseFailureAt(side, scrape) ==
    /\ Done
    /\ calls /= <<>>
    /\ calls[Len(calls)].op = "parse_metrics"
    /\ ~calls[Len(calls)].ok
    /\ calls[Len(calls)].arg.source = side
    /\ calls[Len(calls)].arg.scrape = scrape

\* C5 witness: the second-round target text does not parse.
C5_Witness == ParseFailureAt("target", 2)

\* The positions of the configured list that hold a Tps variant.
TpsPositions == {n \in 1..Len(evaluators) : evaluators[n] = "Tps"}
TpsConfigured == TpsPositions /= {}
FirstTps == CHOOSE n \in TpsPositions : \A m \in TpsPositions : n <= m

\* What the evaluator at a list position returned.
Returned(n) ==
    LET m == CHOOSE m \in 1..Len(calls) :
                calls[m].op = "evaluate" /\ calls[m].idx = n
    IN  calls[m].ret

\* The findings of a summary that come from a Tps variant.
IsTpsFinding(finding) == finding.by \in TpsPositions

\* A run returned a summary after the identity gate let it pass.
FullSuccess == Succeeded /\ ~ShortCircuited

\* C6: the Tps evaluator is never invoked more than once, and in a successful
\* full run with a Tps variant anywhere in the list it was invoked once and
\* the Tps findings of the summary are the findings of that one call, once.
C6_TpsOnce ==
    /\ Count("evaluate", "Tps") <= 1
    /\ (FullSuccess /\ TpsConfigured) =>
        /\ Count("evaluate", "Tps") = 1
        /\ SelectSeq(outcome.summary, IsTpsFinding) = Returned(FirstTps)
    /\ (FullSuccess /\ ~TpsConfigured) =>
        SelectSeq(outcome.summary, IsTpsFinding) = <<>>

\* C6 witness: a successful run whose Tps variant is the last configured
\* evaluator, behind a Metrics evaluator, and returned findings.
C6_Witness ==
    /\ FullSuccess
    /\ evaluators = <<"Metrics", "Tps">>
    /\ Returned(2) /= <<>>

\* The findings of the final loop over the first n positions, in list order.
RECURSIVE LoopFindings(_)
LoopFindings(n) ==
    IF n = 0 THEN <<>>
    ELSE LoopFindings(n - 1) \o
         (IF evaluators[n] = "Tps" THEN <<>> ELSE Returned(n))

\* Identity findings, then Tps findings, then the others in configured order.
ExpectedSummary ==
    IdentityFindings \o
    (IF TpsConfigured THEN Returned(FirstTps) ELSE <<>>) \o
    LoopFindings(Len(evaluators))

\* C7: the summary of a successful full run is the identity findings, then the
\* Tps findings if a Tps variant is configured, then the findings of every
\* other configured evaluator in list order, each as returned.
C7_SummaryOrder == FullSuccess => outcome.summary = ExpectedSummary

\* C7 witness: Tps is configured behind another evaluator and every evaluator,
\* the identity evaluator included, returned findings.
C7_Witness ==
    /\ FullSuccess
    /\ evaluators = <<"Latency", "Tps">>
    /\ IdentityFindings /= <<>>
    /\ \A n \in 1..2 : Returned(n) /= <<>>

\* C7, the case of no Tps variant and a delay of 0.
C7_NoTpsNoDelay ==
    /\ FullSuccess
    /\ evaluators = <<"SystemInformation", "Metrics">>
    /\ metrics_fetch_delay_secs = 0
    /\ \A n \in 1..2 : Returned(n) /= <<>>

\* Both first-round responses are parsed: the snapshot window is open.
IsWindowStart(n) ==
    /\ calls[n].op = "parse_metrics" /\ calls[n].ok
    /\ calls[n].arg.source = "target" /\ calls[n].arg.scrape = 1
WindowOpened == \E n \in 1..Len(calls) : IsWindowStart(n)
WindowStart == calls[CHOOSE n \in 1..Len(calls) : IsWindowStart(n)].end
WindowDeadline == WindowStart + metrics_fetch_delay_secs

\* The Tps evaluator's call, if it has returned.
TpsReturned == \E n \in 1..Len(calls) : calls[n].op = "evaluate" /\ calls[n].who = "Tps"
TpsCall ==
    calls[CHOOSE n \in 1..Len(calls) :
            calls[n].op = "evaluate" /\ calls[n].who = "Tps"]
TpsCompletion == IF TpsReturned THEN TpsCall.end ELSE WindowStart

\* C8: the deadline is the time at the window start plus the configured delay,
\* it is fixed before the Tps evaluator starts and never moves, and the second
\* baseline metrics fetch starts at max(deadline, Tps completion time): with a
\* Tps runtime above the delay it starts when the Tps evaluator returns.
C8_DelayAnchoring ==
    /\ WindowOpened => metrics_fetch_delay_time = WindowDeadline
    /\ TpsReturned => TpsCall.at = WindowStart
    /\ pc = "second_baseline_metrics" => now = Max(WindowDeadline, TpsCompletion)
    /\ \A n \in 1..Len(calls) :
        IsMetricsFetch(n, "baseline", 2) =>
            /\ calls[n].at = Max(WindowDeadline, TpsCompletion)
            /\ (TpsReturned /\ TpsCall.end - TpsCall.at > metrics_fetch_delay_secs)
                    => calls[n].at = TpsCall.end

\* C8 witness: the Tps evaluator ran longer than a delay of at least a second
\* and the second baseline fetch was made.
C8_Witness ==
    /\ metrics_fetch_delay_secs >= 1
    /\ TpsReturned
    /\ TpsCall.end - TpsCall.at > metrics_fetch_delay_secs
    /\ \E n \in 1..Len(calls) :
        IsMetricsFetch(n, "baseline", 2) /\ calls[n].at > WindowDeadline

\* C9: on each side the second metrics fetch starts no earlier than the
\* configured delay after the start of that side's first metrics fetch.
C9_SnapshotSeparation ==
    \A side \in {"baseline", "target"} :
        \A m, n \in 1..Len(calls) :
            (IsMetricsFetch(m, side, 1) /\ IsMetricsFetch(n, side, 2)) =>
                calls[n].at >= calls[m].at + metrics_fetch_delay_secs

\* C9 witness: with a delay of at least a second and a Tps evaluator that
\* returned at once, both sides were fetched a second time.
C9_Witness ==
    /\ metrics_fetch_delay_secs >= 1
    /\ TpsReturned /\ TpsCall.end = TpsCall.at
    /\ \E n \in 1..Len(calls) : IsMetricsFetch(n, "baseline", 2)
    /\ \E n \in 1..Len(calls) : IsMetricsFetch(n, "target", 2)

\* C10: the first call of every run is the node identity evaluation on the
\* direct input, nothing is called while it is awaited, and when it fails the
\* run has ended with the identity-evaluation error and no other call.
C10_IdentityGateFirst ==
    /\ calls /= <<>> =>
        /\ calls[1].op = "evaluate" /\ calls[1].who = "NodeIdentity"
        /\ calls[1].arg = direct_evaluator_input
    /\ pc = "node_identity" => calls = <<>>
    /\ (calls /= <<>> /\ ~calls[1].ok) =>
        /\ Done
        /\ Failed
        /\ outcome.error = "NodeIdentityEvaluatorError"
        /\ Len(calls) = 1

\* C10 witness: the node identity evaluator failed, with evaluators configured.
C10_Witness ==
    /\ Done
    /\ calls /= <<>>
    /\ ~calls[1].ok
    /\ evaluators /= <<>>

\* The n-th call of the log is the Tps evaluation.
IsTpsCall(n) == calls[n].op = "evaluate" /\ calls[n].who = "Tps"

\* The n-th call of the log is the successful parse of a side's text of a round.
IsParsed(n, side, scrape) ==
    /\ calls[n].op = "parse_metrics" /\ calls[n].ok
    /\ calls[n].arg.source = side /\ calls[n].arg.scrape = scrape

\* C12: the Tps evaluator is invoked only right after both first-round texts
\* were fetched and parsed, and it has returned before either second-round
\* fetch starts; a run with a Tps variant configured does not reach the second
\* round without it; with no Tps variant configured the Tps evaluator is never
\* invoked and the second round starts the full delay after the window start.
C12_TpsInWindow ==
    /\ \A n \in 1..Len(calls) :
        IsTpsCall(n) =>
            /\ n > 2
            /\ IsParsed(n - 2, "baseline", 1)
            /\ IsParsed(n - 1, "target", 1)
            /\ \A m \in 1..Len(calls), side \in {"baseline", "target"} :
                IsMetricsFetch(m, side, 2) =>
                    (m > n /\ calls[m].at >= calls[n].end)
    /\ \A m \in 1..Len(calls) :
        IsMetricsFetch(m, "baseline", 2) =>
            IF TpsConfigured
            THEN TpsReturned /\ TpsCall.ok
            ELSE calls[m].at = WindowStart + metrics_fetch_delay_secs
    /\ ~TpsConfigured => ~TpsReturned

\* C12 witness: the Tps evaluator ran for a while in the window and both
\* second-round fetches were made after it.
C12_Witness ==
    /\ TpsReturned
    /\ TpsCall.end > TpsCall.at
    /\ \E m \in 1..Len(calls) : IsMetricsFetch(m, "target", 2)

\* C12, the case of no Tps variant: the full delay of at least a second is waited.
C12_NoTpsFullDelay ==
    /\ ~TpsConfigured
    /\ evaluators /= <<>>
    /\ metrics_fetch_delay_secs >= 1
    /\ \E m \in 1..Len(calls) : IsMetricsFetch(m, "baseline", 2)

\* The n-th call of the log is an evaluation made by the final loop.
IsLoopCall(n) ==
    /\ calls[n].op = "evaluate"
    /\ calls[n].who \in {"Metrics", "SystemInformation", "Latency"}

\* C13: every evaluation of the final loop is made on the variant configured
\* at its list position, after both second-round texts were parsed, and after
\* the successful evaluation of every loop evaluator configured before it and
\* of none configured after it; so no evaluator runs twice and none runs after
\* a failed one; a successful full run evaluated each of them once.
C13_RemainingEvaluatorsInOrder ==
    /\ \A n \in 1..Len(calls) :
        IsLoopCall(n) =>
            /\ calls[n].idx \in LoopPositions
            /\ evaluators[calls[n].idx] = calls[n].who
            /\ \E m \in 1..(n - 1) : IsParsed(m, "baseline", 2)
            /\ \E m \in 1..(n - 1) : IsParsed(m, "target", 2)
            /\ \A m \in 1..(n - 1) :
                IsLoopCall(m) => (calls[m].ok /\ calls[m].idx < calls[n].idx)
            /\ \A i \in LoopPositions :
                i < calls[n].idx => Evaluations(i) = 1
    /\ FullSuccess => \A i \in LoopPositions : Evaluations(i) = 1

\* C13 witness: the first of two loop evaluators failed and the second was
\* never invoked.
C13_Witness ==
    /\ Done /\ Failed
    /\ LoopPositions = {1, 2}
    /\ Evaluations(1) = 1
    /\ Evaluations(2) = 0

\* C13, the successful case: two loop evaluators ran in list order.
C13_BothRan ==
    /\ FullSuccess
    /\ evaluators = <<"Latency", "Metrics">>

\* The raw lines a source returned on its first or second metrics fetch.
FetchedLines(side, scrape) ==
    calls[CHOOSE n \in 1..Len(calls) : IsMetricsFetch(n, side, scrape)].ret

\* The snapshot the parser made of those lines.
Snapshot(side, scrape) ==
    calls[CHOOSE n \in 1..Len(calls) :
            /\ calls[n].op = "parse_metrics"
            /\ calls[n].arg = FetchedLines(side, scrape)].ret

\* The n-th call of the log is the evaluation of a Metrics evaluator.
IsMetricsCall(n) == calls[n].op = "evaluate" /\ calls[n].who = "Metrics"

\* C14: every Metrics evaluator is handed the parsed first-round baseline and
\* target fetches as previous_baseline and previous_target and the parsed
\* second-round baseline and target fetches as latest_baseline and
\* latest_target, each slot holding a snapshot of its own side and round.
C14_MetricsInputWiring ==
    \A n \in 1..Len(calls) :
        IsMetricsCall(n) =>
            /\ calls[n].arg =
                    [previous_baseline_metrics |-> Snapshot("baseline", 1),
                     previous_target_metrics |-> Snapshot("target", 1),
                     latest_baseline_metrics |-> Snapshot("baseline", 2),
                     latest_target_metrics |-> Snapshot("target", 2)]
            /\ calls[n].arg.previous_baseline_metrics =
                    [source |-> "baseline", scrape |-> 1]
            /\ calls[n].arg.previous_target_metrics =
                    [source |-> "target", scrape |-> 1]
            /\ calls[n].arg.latest_baseline_metrics =
                    [source |-> "baseline", scrape |-> 2]
            /\ calls[n].arg.latest_target_metrics =
                    [source |-> "target", scrape |-> 2]

\* C14 witness: two Metrics evaluators are configured and both were evaluated.
C14_Witness ==
    /\ evaluators = <<"Metrics", "Metrics">>
    /\ Evaluations(1) = 1
    /\ Evaluations(2) = 1

\* The identity gate let the run pass.
GatePassed == IdentityReturned /\ AllMax

\* The n-th call of the log is the successful collect_system_information on a side.
IsSystemInformation(n, side) ==
    /\ Len(calls) >= n
    /\ calls[n].op = "collect_system_information"
    /\ calls[n].who = side
    /\ calls[n].ok

\* Every SystemInformation evaluator was handed the two fetched values, each
\* in the slot of its side, and both were fetched before any metrics fetch.
SystemInformationPassedThrough ==
    /\ \A n \in 1..Len(calls) :
        calls[n].op = "collect_metrics" =>
            /\ n > 3
            /\ IsSystemInformation(2, "baseline")
            /\ IsSystemInformation(3, "target")
    /\ \A n \in 1..Len(calls) :
        (calls[n].op = "evaluate" /\ calls[n].who = "SystemInformation") =>
            /\ calls[n].arg = [baseline_system_information |-> calls[2].ret,
                               target_system_information |-> calls[3].ret]
            /\ calls[n].arg.baseline_system_information.source = "baseline"
            /\ calls[n].arg.target_system_information.source = "target"

\* C15 as stated: in every finished run that passed the identity gate
\* collect_system_information was called exactly once on each source, before
\* any metrics fetch, and every SystemInformation evaluator got those values.
C15_Original ==
    /\ (Done /\ GatePassed) =>
        /\ Count("collect_system_information", "baseline") = 1
        /\ Count("collect_system_information", "target") = 1
    /\ SystemInformationPassedThrough

\* C15 amended: in every finished run that passed the identity gate
\* collect_system_information was called exactly once on the baseline source
\* and, unless that call failed, exactly once on the target source; it is never
\* called twice on a source; both calls precede every metrics fetch and every
\* SystemInformation evaluator got the two values, each in its side's slot.
C15_SystemInformationOnce ==
    /\ (Done /\ GatePassed) =>
        /\ Count("collect_system_information", "baseline") = 1
        /\ Count("collect_system_information", "target") =
                (IF calls[2].ok THEN 1 ELSE 0)
    /\ \A side \in {"baseline", "target"} :
        Count("collect_system_information", side) <= 1
    /\ SystemInformationPassedThrough

\* C15 witness: two SystemInformation evaluators are configured and both were
\* evaluated.
C15_Witness ==
    /\ evaluators = <<"SystemInformation", "SystemInformation">>
    /\ Evaluations(1) = 1
    /\ Evaluations(2) = 1

\* C16: no call is made after a failed call, so nothing is attempted again;
\* a run evaluates node identity at most once, calls
\* collect_system_information at most once and collect_metrics at most twice
\* on each source, parses at most four texts and evaluates each configured
\* evaluator at most once.
C16_NoRetries ==
    /\ \A n \in 1..Len(calls) : ~calls[n].ok => n = Len(calls)
    /\ Count("evaluate", "NodeIdentity") <= 1
    /\ \A side \in {"baseline", "target"} :
        /\ Count("collect_system_information", side) <= 1
        /\ Count("collect_metrics", side) <= 2
    /\ Count("parse_metrics", "parser") <= 4
    /\ \A i \in 1..Len(evaluators) : Evaluations(i) <= 1

\* C16 witness: the second of two loop evaluators failed, after every fetch
\* had been made, and the run ended there.
C16_Witness ==
    /\ Done /\ Failed
    /\ calls[Len(calls)].op = "evaluate"
    /\ calls[Len(calls)].idx = 2
    /\ Count("collect_metrics", "baseline") = 2
    /\ Count("collect_metrics", "target") = 2

\* The run went past the identity gate, to the baseline system information
\* fetch or beyond.
Proceeded == pc = "baseline_system_information" \/ Len(calls) > 1

\* C17: a run goes past the identity gate exactly when the node identity
\* evaluator succeeded and every finding it returned scores 100 (none
\* returned included); a finding scoring anything else, under or over 100,
\* ends the run with Ok and the identity findings only.
C17_GateExactlyOnAllPassing ==
    /\ Proceeded <=> (IdentityReturned /\ AllMax)
    /\ (IdentityReturned /\ SomeNotMax) =>
        /\ Done
        /\ Succeeded
        /\ outcome.summary = IdentityFindings
        /\ Len(calls) = 1

\* C17 witness: the only non-passing identity finding scores over 100 and the
\* run was short-circuited.
C17_Witness ==
    /\ Done /\ Succeeded /\ IdentityReturned
    /\ Len(calls) = 1
    /\ SomeNotMax /\ ~SomeBelowMax
    /\ evaluators /= <<>>

\* The vacuous case of C17: no identity findings, and the run went on.
C17_EmptyProceeds ==
    /\ IdentityReturned /\ IdentityFindings = <<>>
    /\ Count("collect_system_information", "baseline") = 1

\* More than one Tps variant is configured.
SeveralTps == Cardinality(TpsPositions) > 1

\* C18: with several Tps variants configured, the only Tps evaluation ever
\* made is that of the first one in list order, at most once and between the
\* first-round parses and the second-round fetches; no other Tps variant is
\* evaluated, and the Tps findings of a successful full run are the findings
\* of that one evaluation of the first variant.
C18_OnlyFirstTps ==
    SeveralTps =>
        /\ \A n \in 1..Len(calls) :
            IsTpsCall(n) =>
                /\ calls[n].idx = FirstTps
                /\ n > 2
                /\ IsParsed(n - 1, "target", 1)
                /\ \A m \in 1..n, side \in {"baseline", "target"} :
                    ~IsMetricsFetch(m, side, 2)
        /\ \A i \in TpsPositions \ {FirstTps} : Evaluations(i) = 0
        /\ Evaluations(FirstTps) <= 1
        /\ FullSuccess =>
            /\ Evaluations(FirstTps) = 1
            /\ \A k \in 1..Len(outcome.summary) :
                IsTpsFinding(outcome.summary[k]) =>
                    outcome.summary[k].by = FirstTps
            /\ SelectSeq(outcome.summary, IsTpsFinding) = Returned(FirstTps)

\* C18 witness: two Tps variants, a successful run, and the one Tps
\* evaluation returned findings.
C18_Witness ==
    /\ evaluators = <<"Tps", "Tps">>
    /\ FullSuccess
    /\ Returned(1) /= <<>>

\* The n-th call of the log is a parse of a side's text of a round.
IsParse(n, side, scrape) ==
    /\ calls[n].op = "parse_metrics"
    /\ calls[n].arg.source = side /\ calls[n].arg.scrape = scrape

\* The n-th call of the log fetched, from the baseline source, a text of the
\* given round that the parser rejects.
IsUnparsableBaselineFetch(n, scrape) ==
    /\ IsMetricsFetch(n, "baseline", scrape)
    /\ calls[n].ok
    /\ ~calls[n].ret.wellformed

\* C19: in each metrics round the target fetch directly follows the successful
\* baseline fetch, the baseline parse directly follows the successful target
\* fetch and the target parse directly follows the successful baseline parse,
\* each parse taking the text fetched in that round; when the baseline text
\* is unparsable and the target fetch fails the run ends with the source error
\* and no text of that round is parsed; when both texts are unparsable the run
\* ends with the parse error at the baseline's parse and the target's text is
\* never parsed.
C19_RoundOrder ==
    \A n \in 1..Len(calls), scrape \in {1, 2} :
        /\ IsMetricsFetch(n, "target", scrape) =>
            /\ n > 1
            /\ IsMetricsFetch(n - 1, "baseline", scrape)
            /\ calls[n - 1].ok
        /\ IsParse(n, "baseline", scrape) =>
            /\ n > 2
            /\ IsMetricsFetch(n - 1, "target", scrape)
            /\ calls[n - 1].ok
            /\ calls[n].arg = calls[n - 2].ret
        /\ IsParse(n, "target", scrape) =>
            /\ n > 3
            /\ IsParsed(n - 1, "baseline", scrape)
            /\ calls[n].arg = calls[n - 2].ret
        /\ (IsUnparsableBaselineFetch(n, scrape) /\ Len(calls) > n) =>
            /\ IsMetricsFetch(n + 1, "target", scrape)
            /\ IF ~calls[n + 1].ok
               THEN /\ Done /\ Failed
                    /\ outcome.error = SourceError
                    /\ Len(calls) = n + 1
                    /\ \A m \in 1..Len(calls), side \in {"baseline", "target"} :
                        ~IsParse(m, side, scrape)
               ELSE /\ Done /\ Failed
                    /\ outcome.error = "ParseMetricsError"
                    /\ Len(calls) = n + 2
                    /\ IsParse(n + 2, "baseline", scrape)
                    /\ ~calls[n + 2].ok

\* C19 witness: in the first round the baseline text was unparsable and the
\* target fetch failed.
C19_Witness ==
    /\ Done
    /\ \E n \in 1..(Len(calls) - 1) :
        /\ IsUnparsableBaselineFetch(n, 1)
        /\ ~calls[n + 1].ok

\* C19, the case of two unparsable texts, in the second round.
C19_BothUnparsable ==
    /\ Done
    /\ \E n \in 1..(Len(calls) - 1) :
        /\ IsUnparsableBaselineFetch(n, 2)
        /\ calls[n + 1].ok
        /\ ~calls[n + 1].ret.wellformed

\* The error kinds run() can return.
RunnerError ==
    {"NodeIdentityEvaluatorError", "MetricCollectorError", "ParseMetricsError",
     "TpsEvaluatorError", "MetricEvaluatorError",
     "SystemInformationEvaluatorError", "LatencyEvaluatorError"}

\* The position of a stage in the pipeline.
StageRank(stage) ==
    CASE stage = "node_identity" -> 1
      [] stage = "baseline_system_information" -> 2
      [] stage = "target_system_information" -> 3
      [] stage = "first_baseline_metrics" -> 4
      [] stage = "first_target_metrics" -> 5
      [] stage = "tps" -> 6
      [] stage = "sleep" -> 7
      [] stage = "second_baseline_metrics" -> 8
      [] stage = "second_target_metrics" -> 9
      [] stage = "evaluators" -> 10
      [] stage = "done" -> 11

\* A step moves to a later stage, or to the next evaluator of the final loop.
Advances ==
    \/ StageRank(pc') > StageRank(pc)
    \/ /\ pc = "evaluators" /\ pc' = "evaluators"
       /\ pos' = pos + 1
       /\ pos' <= Len(evaluators)

\* C20: when every await returns, run() eventually returns, with a summary
\* or with one of the error kinds, and never anything else; every step moves
\* to a later stage of the pipeline or to the next evaluator of the single
\* pass over the configured list, never back.
C20_Terminates ==
    /\ <>Done
    /\ [](Done <=> (Succeeded \/ Failed))
    /\ [](Failed => outcome.error \in RunnerError)
    /\ [][Advances]_<<pc, pos>>

\* C20 witness: a run that went through every stage, with a delay to wait
\* out and two evaluators to loop over, has returned.
C20_Witness ==
    /\ Done
    /\ CompleteRun
    /\ Len(evaluators) = 2
    /\ metrics_fetch_delay_secs >= 1

\* The evaluate calls of the final loop over the first n list positions.
RECURSIVE LoopCalls(_)
LoopCalls(n) ==
    IF n = 0 THEN <<>>
    ELSE LoopCalls(n - 1) \o
         (IF evaluators[n] = "Tps" THEN <<>> ELSE <<<<"evaluate", evaluators[n], n>>>>)

\* One metrics round: both fetches, then both parses.
RoundCalls ==
    <<<<"collect_metrics", "baseline", 0>>, <<"collect_metrics", "target", 0>>,
      <<"parse_metrics", "parser", 0>>, <<"parse_metrics", "parser", 0>>>>

\* The collaborator calls of a run that is alone on the runner and meets no
\* failure and no short-circuit, in order: operation, collaborator, position.
SoloCalls ==
    <<<<"evaluate", "NodeIdentity", 0>>,
      <<"collect_system_information", "baseline", 0>>,
      <<"collect_system_information", "target", 0>>>> \o
    RoundCalls \o
    (IF TpsConfigured THEN <<<<"evaluate", "Tps", FirstTps>>>> ELSE <<>>) \o
    RoundCalls \o
    LoopCalls(Len(evaluators))

\* The position in the log of the last call before the final loop, the
\* second-round parse of the target text.
LoopStart == Len(SoloCalls) - Len(LoopCalls(Len(evaluators)))

\* The run made the calls of a run that is alone, as far as it got, handing
\* its own target and the values its own calls returned.
CallsAsAlone ==
    LET solo == SoloCalls IN
    /\ Len(calls) <= Len(solo)
    /\ \A n \in 1..Len(calls) :
        /\ <<calls[n].op, calls[n].who, calls[n].idx>> = solo[n]
        /\ calls[n].who \in {"NodeIdentity", "Tps", "Latency"} =>
            /\ calls[n].arg = direct_evaluator_input
            /\ calls[n].arg.target_node_address = target_node_address
        /\ calls[n].op = "parse_metrics" => calls[n].arg = calls[n - 2].ret
        /\ IsMetricsCall(n) =>
            calls[n].arg = [previous_baseline_metrics |-> calls[6].ret,
                            previous_target_metrics |-> calls[7].ret,
                            latest_baseline_metrics |-> calls[LoopStart - 1].ret,
                            latest_target_metrics |-> calls[LoopStart].ret]
    /\ SystemInformationPassedThrough

\* What run() returned is what a run alone returns on the same answers: the
\* error of its first failed call, the identity findings at a short-circuit,
\* the whole summary otherwise, and nothing before that.
OutcomeAsAlone ==
    /\ Done <=> (Succeeded \/ Failed)
    /\ Failed <=> AnyFailed
    /\ AnyFailed =>
        /\ FirstFailure = Len(calls)
        /\ outcome.error = StageErrorKind(calls[Len(calls)])
    /\ Succeeded => (ShortCircuited \/ CompleteRun)
    /\ ShortCircuited => Succeeded
    /\ Succeeded =>
        outcome.summary = (IF ShortCircuited THEN IdentityFindings
                           ELSE ExpectedSummary)

\* The deadline is the run's own window start plus the configured delay, and
\* the second round starts neither before it nor before the run's own Tps
\* evaluation has returned.
DeadlineAsAlone ==
    WindowOpened =>
        /\ metrics_fetch_delay_time = WindowStart + metrics_fetch_delay_secs
        /\ \A n \in {LoopStart - 3, LoopStart - 2} :
            n <= Len(calls) =>
                /\ calls[n].op = "collect_metrics"
                /\ calls[n].at >= metrics_fetch_delay_time
                /\ TpsConfigured => (TpsReturned /\ calls[n].at >= TpsCall.end)

\* C11: with two runs against different targets on one runner, switched at
\* any await, the executing run always has the calls, the outcome and the
\* deadline of a run alone on the same answers; no step changes the
\* configuration; a step of one run leaves the locals of the other as they
\* are, and a run that resumes finds its locals as it left them.
C11_ConcurrentReuse ==
    /\ [](CallsAsAlone /\ OutcomeAsAlone /\ DeadlineAsAlone)
    /\ [][config' = config]_vars
    /\ [][switches' = switches => suspended' = suspended]_vars
    /\ [][switches' /= switches => (Frame' = suspended /\ suspended' = Frame)]_vars

\* C11 witness: after two switches the run against target_a has returned a
\* summary holding a non-passing finding of the Tps evaluator, while the run
\* against target_b is suspended past its own Tps evaluation with other
\* findings.
C11_Witness ==
    /\ target_node_address = "target_a"
    /\ switches >= 2
    /\ FullSuccess
    /\ TpsConfigured
    /\ \E k \in 1..Len(outcome.summary) : outcome.summary[k].score /= PassingScore
    /\ suspended.target_node_address = "target_b"
    /\ suspended.pc \in {"sleep", "second_baseline_metrics", "second_target_metrics"}
    /\ suspended.evaluation_results /= <<>>
====
